---- MODULE Spec2Model ----
(***************************************************************************)
(* A model of greenery's finite state machine library (greenery/fsm.py).   *)
(*                                                                         *)
(* An fsm object is a record [alphabet, states, initial, finals, map]; its *)
(* map is a function from the states that have a row to functions from    *)
(* the symbols that row mentions to states (a Python dict of dicts).       *)
(* A raised Python exception is a result whose exc field is not "none".    *)
(***************************************************************************)
EXTENDS Integers, Sequences, FiniteSets, TLC

\* --------------------------------------------------------------- bounds
\* The largest number of states of an operand fsm.
MaxStates == 2
\* The longest input word the languages are compared on.
MaxWordLen == 3
\* The longest word the strings() generator is followed to.
MaxGenLen == 3
MaxParseLen == 3

\* ------------------------------------------------------ the symbol model
\* fsm.anything_else: the surrogate for "any symbol not in the alphabet".
\* It is given the smallest number, so that only key() puts it last.
anything_else == 0

\* The concrete symbols of the model.
Symbols == {1, 2}

\* key() without the test for anything_else: the plain order of the symbols.
keyPlain(symbol) == <<0, symbol>>

\* key(symbol) == (symbol is anything_else, symbol)
key(symbol) == <<IF symbol = anything_else THEN 1 ELSE 0, symbol>>

\* Python's tuple comparison on two keys.
keyLess(k1, k2) == k1[1] < k2[1] \/ (k1[1] = k2[1] /\ k1[2] < k2[2])

\* sorted() in descending key order.
RECURSIVE sortedDescending(_)
sortedDescending(S) ==
  IF S = {} THEN <<>>
  ELSE LET m == CHOOSE x \in S : \A y \in S \ {x} : keyLess(key(y), key(x))
       IN <<m>> \o sortedDescending(S \ {m})

\* sorted(S, key=key): the symbols of S as a list in ascending key order.
RECURSIVE sorted(_)
sorted(S) ==
  IF S = {} THEN <<>>
  ELSE LET m == CHOOSE x \in S : \A y \in S \ {x} : keyLess(key(x), key(y))
       IN <<m>> \o sorted(S \ {m})

\* ------------------------------------------------------------ fsm objects
\* The placeholder where a call raised and returned no fsm.
NoFsm == [alphabet |-> {}, states |-> {}, initial |-> -1, finals |-> {},
          map |-> <<>>]

\* fsm.__init__'s validation: TRUE iff no exception is raised.
validate(alphabet, states, initial, finals, map) ==
  /\ initial \in states
  /\ finals \subseteq states
  /\ \A state \in DOMAIN map : \A symbol \in DOMAIN map[state] :
        map[state][symbol] \in states

\* fsm.__init__'s assignments: the object's fields.
fsm(alphabet, states, initial, finals, map) ==
  [alphabet |-> alphabet, states |-> states, initial |-> initial,
   finals |-> finals, map |-> map]

\* fsm.accepts: "none"/TRUE, "none"/FALSE or a KeyError from self.map[state].
RECURSIVE acceptsFrom(_, _, _)
acceptsFrom(self, state, input) ==
  IF input = <<>> THEN [exc |-> "none", val |-> state \in self.finals]
  ELSE LET symbol == IF anything_else \in self.alphabet
                        /\ Head(input) \notin self.alphabet
                     THEN anything_else ELSE Head(input)
       IN IF state \notin DOMAIN self.map
          THEN [exc |-> "KeyError", val |-> FALSE]
          ELSE IF symbol \notin DOMAIN self.map[state]
          THEN [exc |-> "none", val |-> FALSE]
          ELSE acceptsFrom(self, self.map[state][symbol], Tail(input))

accepts(self, input) == acceptsFrom(self, self.initial, input)

\* --------------------------------------------- the closures given to crawl
\* Each method hands crawl() its own final() and follow(), closed over self
\* (and other).  A closure is the record of what it is closed over; final
\* and follow below apply it.  follow returns [exc, val]: indexing a dict
\* with a key it lacks raises KeyError.
closure(kind, self, other) == [kind |-> kind, self |-> self, other |-> other]

\* A follow() that returned val; a follow() that raised KeyError.
ok(val) == [exc |-> "none", val |-> val]
KeyError == [exc |-> "KeyError", val |-> {}]

\* self.map[state][symbol] raises KeyError
missing(self, state, symbol) ==
  state \notin DOMAIN self.map \/ symbol \notin DOMAIN self.map[state]

\* __reversed__'s follow without the test of the symbol: every prev with a
\* transition into current on any symbol.
followReversedAnySymbol(self, current, symbol) ==
  ok({prev \in DOMAIN self.map :
        \E state \in current : \E sym \in DOMAIN self.map[prev] :
           self.map[prev][sym] = state})

\* __reversed__'s follow: every prev with a transition on symbol into current
followReversed(self, current, symbol) ==
  ok({prev \in DOMAIN self.map :
        \E state \in current :
           /\ symbol \in DOMAIN self.map[prev]
           /\ self.map[prev][symbol] = state})

\* __reversed__'s final
finalReversed(self, state) == self.initial \in state

\* __add__'s initial without the start of other where self starts final.
initialAddSelfOnly(self, other) == {<<0, self.initial>>}

\* __add__'s initial: a set of pairs (0, state of self), (1, state of other)
initialAdd(self, other) ==
  IF self.initial \in self.finals
  THEN {<<0, self.initial>>, <<1, other.initial>>}
  ELSE {<<0, self.initial>>}

\* __add__'s final
finalAdd(self, other, state) ==
  \E p \in state :
     \/ p[1] = 0 /\ p[2] \in self.finals /\ other.initial \in other.finals
     \/ p[1] = 1 /\ p[2] \in other.finals

\* __add__'s follow
followAdd(self, other, current, symbol) ==
  IF \E p \in current : missing(IF p[1] = 0 THEN self ELSE other, p[2], symbol)
  THEN KeyError
  ELSE ok({<<0, self.map[p[2]][symbol]>> : p \in {q \in current : q[1] = 0}}
          \cup {<<1, other.initial>> :
                  p \in {q \in current : q[1] = 0
                           /\ self.map[q[2]][symbol] \in self.finals}}
          \cup {<<1, other.map[p[2]][symbol]>> :
                  p \in {q \in current : q[1] = 1}})

\* star() as its docstring warns against: no new state, the final states are
\* connected back to the initial state, which is made accepting.
omegaIsInitial(self) == self.initial

\* star's omega: the first number from len(states) on that is not a state
omega(self) ==
  CHOOSE n \in Cardinality(self.states)..(2 * Cardinality(self.states)) :
    /\ n \notin self.states
    /\ \A m \in Cardinality(self.states)..(n - 1) : m \in self.states

\* star's follow
followStar(self, current, symbol) ==
  LET actual(state) == IF state = omega(self) THEN self.initial ELSE state
  IN IF \E state \in current : missing(self, actual(state), symbol)
     THEN KeyError
     ELSE ok({self.map[actual(state)][symbol] : state \in current}
             \cup {omega(self) : state \in {s \in current :
                      self.map[actual(s)][symbol] \in self.finals}})

\* star's final
finalStar(self, state) == omega(self) \in state

\* {0 : self.initial, 1 : other.initial}: the initial of __or__, __and__ and
\* __xor__, a dict from the tags 0 (self) and 1 (other) to their states
initial2(self, other) ==
  [t \in {0, 1} |-> IF t = 0 THEN self.initial ELSE other.initial]

\* That follow with a side that has no transition staying where it is.
follow2Stay(self, other, current, symbol) ==
  LET has(m, t) == /\ current[t] \in DOMAIN m.map
                   /\ symbol \in DOMAIN m.map[current[t]]
  IN ok([t \in {0, 1} |->
           IF t = 0 THEN (IF has(self, 0) THEN self.map[current[0]][symbol]
                                          ELSE current[0])
                    ELSE (IF has(other, 1) THEN other.map[current[1]][symbol]
                                           ELSE current[1])])

\* The follow of __or__, __and__ and __xor__ (the three are the same text):
\* a side without a transition drops out of the dict.
follow2(self, other, current, symbol) ==
  LET has(m, t) == /\ t \in DOMAIN current
                   /\ current[t] \in DOMAIN m.map
                   /\ symbol \in DOMAIN m.map[current[t]]
      tags == {t \in {0} : has(self, t)} \cup {t \in {1} : has(other, t)}
  IN ok([t \in tags |-> IF t = 0 THEN self.map[current[0]][symbol]
                                 ELSE other.map[current[1]][symbol]])

\* (0 in state and state[0] in self.finals), and the same for tag 1
fin0(self, state) == 0 \in DOMAIN state /\ state[0] \in self.finals
fin1(other, state) == 1 \in DOMAIN state /\ state[1] \in other.finals

\* The final of __or__, of __and__ and of __xor__.
finalOr(self, other, state) == fin0(self, state) \/ fin1(other, state)
finalAnd(self, other, state) == fin0(self, state) /\ fin1(other, state)
finalXor(self, other, state) == fin0(self, state) # fin1(other, state)

\* everythingbut's initial, follow and final
initialEverythingbut(self) == [t \in {0} |-> self.initial]

followEverythingbut(self, current, symbol) ==
  LET tags == {t \in {0} : /\ t \in DOMAIN current
                           /\ current[t] \in DOMAIN self.map
                           /\ symbol \in DOMAIN self.map[current[t]]}
  IN ok([t \in tags |-> self.map[current[0]][symbol]])

\* everythingbut's final as the plain negation on a state of self: the
\* empty dict, the dead state, is not final.
finalEverythingbutLive(self, state) ==
  0 \in DOMAIN state /\ state[0] \notin self.finals

finalEverythingbut(self, state) == ~ fin0(self, state)

\* final(state) of the closure f
final(f, state) ==
  CASE f.kind = "reversed" -> finalReversed(f.self, state)
    [] f.kind = "add" -> finalAdd(f.self, f.other, state)
    [] f.kind = "star" -> finalStar(f.self, state)
    [] f.kind = "or" -> finalOr(f.self, f.other, state)
    [] f.kind = "and" -> finalAnd(f.self, f.other, state)
    [] f.kind = "xor" -> finalXor(f.self, f.other, state)
    [] f.kind = "everythingbut" -> finalEverythingbut(f.self, state)

\* follow(current, symbol) of the closure f
follow(f, current, symbol) ==
  CASE f.kind = "reversed" -> followReversed(f.self, current, symbol)
    [] f.kind = "add" -> followAdd(f.self, f.other, current, symbol)
    [] f.kind = "star" -> followStar(f.self, current, symbol)
    [] f.kind \in {"or", "and", "xor"} -> follow2(f.self, f.other, current, symbol)
    [] f.kind = "everythingbut" -> followEverythingbut(f.self, current, symbol)

\* ------------------------------------------------------------------ crawl
\* states.index(next): the first list index (from 1 here) holding next, or 0
index(states, next) ==
  IF \E j \in 1..Len(states) : states[j] = next
  THEN CHOOSE j \in 1..Len(states) :
          /\ states[j] = next
          /\ \A h \in 1..(j - 1) : states[h] # next
  ELSE 0

\* crawl(alphabet, initial, final, follow), final and follow being those of
\* the closure f.  An exception raised inside follow ends the crawl and
\* propagates: the result is [exc, obj].
crawl(alphabet, initial, f) ==
  LET syms == sorted(alphabet)
      \* the for loop over the symbols, from the k-th on, for state number i
      RECURSIVE row(_, _, _, _)
      row(states, i, k, r) ==
        IF k > Len(syms) THEN [exc |-> "none", states |-> states, row |-> r]
        ELSE LET next == follow(f, states[i], syms[k])
                 j == index(states, next.val)
             IN IF next.exc # "none"
                THEN [exc |-> next.exc, states |-> states, row |-> r]
                ELSE IF j # 0
                THEN row(states, i, k + 1, r @@ (syms[k] :> (j - 1)))
                ELSE row(Append(states, next.val), i, k + 1,
                         r @@ (syms[k] :> Len(states)))
      \* the while loop, at list index i (from 1 here, from 0 in the fsm)
      RECURSIVE loop(_, _, _, _)
      loop(states, i, finals, map) ==
        IF i > Len(states)
        THEN [exc |-> "none",
              obj |-> fsm(alphabet, 0..(Len(states) - 1), 0, finals, map)]
        ELSE LET fin == IF final(f, states[i]) THEN finals \cup {i - 1}
                                               ELSE finals
                 r == row(states, i, 1, <<>>)
             IN IF r.exc # "none" THEN [exc |-> r.exc, obj |-> NoFsm]
                ELSE loop(r.states, i + 1, fin, map @@ ((i - 1) :> r.row))
  IN loop(<<initial>>, 1, {}, <<>>)

\* ------------------------------------------------------------ the methods
\* fsm.__reversed__
__reversed__(self) ==
  crawl(self.alphabet, self.finals, closure("reversed", self, NoFsm)).obj

\* reduce() that returns the fsm as it is.
reduceNothing(self) == self

\* fsm.reduce
reduce(self) == __reversed__(__reversed__(self))

\* crawl(...).reduce(): the exception of the crawl, or the reduced fsm.
crawlReduced(c) ==
  IF c.exc # "none" THEN c ELSE [exc |-> "none", obj |-> reduce(c.obj)]

\* The exception of the alphabet test that opens every two-operand method.
Disagree == [exc |-> "Exception", obj |-> NoFsm]

\* fsm.__add__
__add__(self, other) ==
  IF other.alphabet # self.alphabet THEN Disagree
  ELSE crawlReduced(crawl(self.alphabet, initialAdd(self, other),
                          closure("add", self, other)))

\* fsm.star
star(self) ==
  crawlReduced(crawl(self.alphabet, {omega(self)}, closure("star", self, NoFsm)))

\* fsm.__or__
__or__(self, other) ==
  IF other.alphabet # self.alphabet THEN Disagree
  ELSE crawlReduced(crawl(self.alphabet, initial2(self, other),
                          closure("or", self, other)))

\* __and__ without the test of the alphabets that opens it.
andUntested(self, other) ==
  crawlReduced(crawl(self.alphabet, initial2(self, other),
                     closure("and", self, other)))

\* fsm.__and__
__and__(self, other) ==
  IF other.alphabet # self.alphabet THEN Disagree
  ELSE crawlReduced(crawl(self.alphabet, initial2(self, other),
                          closure("and", self, other)))

\* fsm.__xor__
__xor__(self, other) ==
  IF other.alphabet # self.alphabet THEN Disagree
  ELSE crawlReduced(crawl(self.alphabet, initial2(self, other),
                          closure("xor", self, other)))

\* fsm.everythingbut
everythingbut(self) ==
  crawlReduced(crawl(self.alphabet, initialEverythingbut(self),
                     closure("everythingbut", self, NoFsm)))

\* The initial meta-state each method hands to crawl.
initialOf(kind, self, other) ==
  CASE kind = "reversed" -> self.finals
    [] kind = "add" -> initialAdd(self, other)
    [] kind = "star" -> {omega(self)}
    [] kind \in {"or", "and", "xor"} -> initial2(self, other)
    [] kind = "everythingbut" -> initialEverythingbut(self)

\* fsm.islive's for loop: the targets of the row, in the order of the list
\* symbols, appended to reachable unless already there.  (A dict is read in
\* insertion order; the order does not change what islive returns.)
RECURSIVE isliveRow(_, _, _, _)
isliveRow(self, reachable, current, symbols) ==
  IF symbols = <<>> THEN reachable
  ELSE LET next == self.map[current][Head(symbols)]
       IN isliveRow(self,
                    IF \E j \in 1..Len(reachable) : reachable[j] = next
                    THEN reachable ELSE Append(reachable, next),
                    current, Tail(symbols))

\* fsm.islive's while loop, at list index i (from 1 here)
RECURSIVE isliveLoop(_, _, _)
isliveLoop(self, reachable, i) ==
  IF i > Len(reachable) THEN FALSE
  ELSE LET current == reachable[i]
       IN IF current \in self.finals THEN TRUE
          ELSE IF current \in DOMAIN self.map
          THEN isliveLoop(self, isliveRow(self, reachable, current,
                                          sorted(DOMAIN self.map[current])),
                          i + 1)
          ELSE isliveLoop(self, reachable, i + 1)

\* fsm.islive
islive(self, state) == isliveLoop(self, <<state>>, 1)

\* fsm.empty
empty(self) == ~ islive(self, self.initial)

\* fsm.equivalent: (self ^ other).empty(), or the exception of self ^ other
equivalent(self, other) ==
  LET x == __xor__(self, other)
  IN IF x.exc # "none" THEN [exc |-> x.exc, val |-> FALSE]
     ELSE [exc |-> "none", val |-> empty(x.obj)]

\* null(alphabet)
null(alphabet) ==
  fsm(alphabet, {0}, 0, {}, [s \in {0} |-> [symbol \in alphabet |-> 0]])

\* epsilon(alphabet)
epsilon(alphabet) ==
  fsm(alphabet, {0, 1}, 0, {0}, [s \in {0, 1} |-> [symbol \in alphabet |-> 1]])

\* ------------------------------------------------------------ the parser
\* A string is a sequence of one-character strings; the code's index i
\* (from 0) is kept, so string[i] is string[i + 1] here.  Every match
\* function returns [exc, j, val]: the exception it raised if any, the index
\* after the match, and the code point matched where the code uses it.  The
\* pattern objects built on the way are left out: no test depends on them.
matched(j, val) == [exc |-> "none", j |-> j, val |-> val]
NoMatch == [exc |-> "NoMatch", j |-> 0, val |-> 0]
IndexError == [exc |-> "IndexError", j |-> 0, val |-> 0]

\* ord(char), for the characters of the model
ord(char) ==
  CASE char = "(" -> 40 [] char = ")" -> 41 [] char = "," -> 44
    [] char = "-" -> 45 [] char = "4" -> 52 [] char = "?" -> 63
    [] char = "[" -> 91 [] char = "\\" -> 92 [] char = "]" -> 93
    [] char = "^" -> 94 [] char = "a" -> 97 [] char = "x" -> 120
    [] char = "{" -> 123 [] char = "|" -> 124 [] char = "}" -> 125
    [] OTHER -> 0

\* string[i:j]
Slice(string, i, j) ==
  SubSeq(string, i + 1, IF j < Len(string) THEN j ELSE Len(string))

\* string[j]: IndexError past the end
CharAt(string, j) ==
  IF j >= Len(string) THEN IndexError ELSE matched(j, string[j + 1])

\* charclass.escapes: code point and text of each escape
escapes == << <<9, <<"\\", "t">> >>, <<10, <<"\\", "n">> >>,
              <<11, <<"\\", "v">> >>, <<12, <<"\\", "f">> >>,
              <<13, <<"\\", "r">> >> >>

\* Charclass.classSpecial and Charclass.allSpecial
classSpecial == <<"\\", "[", "]", "^", "-">>
allSpecial == <<"\\", "[", "]", "|", "(", ")", ".", "?", "*", "+", "{", "}">>

\* The texts of charclass.shorthand, and of Charclass.shorthand followed by
\* Charclass.negated_shorthand
shorthand == << <<".">>, <<"\\", "w">>, <<"\\", "d">>, <<"\\", "s">>,
                <<"\\", "W">>, <<"\\", "D">>, <<"\\", "S">> >>
classShorthand == << <<"\\", "w">>, <<"\\", "d">>, <<"\\", "s">>,
                     <<"\\", "W">>, <<"\\", "D">>, <<"\\", "S">> >>

\* multiplier.symbolic, in the order sorted by -len puts it: "" last
symbolic == << <<"?">>, <<"*">>, <<"+">>, <<>> >>

\* unescape_hex's hex_digits, and the value of a digit
hex_digits == <<"0", "1", "2", "3", "4", "5", "6", "7", "8", "9",
                "A", "a", "B", "b", "C", "c", "D", "d", "E", "e", "F", "f">>
hexValue(digit) ==
  LET k == CHOOSE n \in 1..Len(hex_digits) : hex_digits[n] = digit
  IN IF k <= 10 THEN k - 1 ELSE 10 + ((k - 11) \div 2)

\* char in chars
In(char, chars) == \E k \in 1..Len(chars) : chars[k] = char

\* parse.read_until
RECURSIVE read_until(_, _, _)
read_until(string, i, stop_char) ==
  IF i >= Len(string) THEN NoMatch
  ELSE IF string[i + 1] = stop_char THEN matched(i + 1, 0)
  ELSE read_until(string, i + 1, stop_char)

\* parse.static
static(string, i, st) ==
  IF Slice(string, i, i + Len(st)) = st THEN matched(i + Len(st), 0)
  ELSE NoMatch

\* parse.select_static and the for/try loops over static(): the first of
\* the texts, from the k-th on, that matches at i; val is its number.
RECURSIVE select_static(_, _, _, _)
select_static(string, i, statics, k) ==
  IF k > Len(statics) THEN NoMatch
  ELSE IF static(string, i, statics[k]).exc = "none"
  THEN matched(i + Len(statics[k]), k)
  ELSE select_static(string, i, statics, k + 1)

\* The same over "\\" + char for the characters of a set; val is the
\* code point of the character.
RECURSIVE select_escaped(_, _, _, _)
select_escaped(string, i, chars, k) ==
  IF k > Len(chars) THEN NoMatch
  ELSE IF static(string, i, <<"\\", chars[k]>>).exc = "none"
  THEN matched(i + 2, ord(chars[k]))
  ELSE select_escaped(string, i, chars, k + 1)

\* The same over the texts of charclass.escapes; val is the code point.
RECURSIVE select_escape(_, _, _)
select_escape(string, i, k) ==
  IF k > Len(escapes) THEN NoMatch
  ELSE IF static(string, i, escapes[k][2]).exc = "none"
  THEN matched(i + 2, escapes[k][1])
  ELSE select_escape(string, i, k + 1)

\* parse.unescape_hex
unescape_hex(string, i) ==
  LET s == static(string, i, <<"\\", "x">>)
      hex1 == CharAt(string, s.j)
      hex2 == CharAt(string, s.j + 1)
  IN IF s.exc # "none" THEN s
     ELSE IF hex1.exc # "none" THEN hex1
     ELSE IF ~ In(hex1.val, hex_digits) THEN NoMatch
     ELSE IF hex2.exc # "none" THEN hex2
     ELSE IF ~ In(hex2.val, hex_digits) THEN NoMatch
     ELSE matched(s.j + 2, 16 * hexValue(hex1.val) + hexValue(hex2.val))

\* parse.match_internal_char
match_internal_char(string, i) ==
  LET e == select_escape(string, i, 1)
      c == select_escaped(string, i, classSpecial, 1)
      h == unescape_hex(string, i)
      char == CharAt(string, i)
  IN IF e.exc = "none" THEN e
     ELSE IF c.exc = "none" THEN c
     ELSE IF h.exc # "NoMatch" THEN h
     ELSE IF char.exc # "none" THEN char
     ELSE IF In(char.val, classSpecial) THEN NoMatch
     ELSE matched(i + 1, ord(char.val))

\* In what follows a function of the code is several definitions where it
\* has several steps: each step takes the results of the steps before it as
\* parameters (first, dash, ...), named as the code names them.

\* match_class_interior_1, attempt 2 from `last` on: the range, or attempt 3,
\* which is `first` again
rangeLast(string, first, last) ==
  IF last.exc \notin {"none", "NoMatch"} THEN last
  ELSE IF last.exc = "none" /\ first.val < last.val THEN matched(last.j, 0)
  ELSE first

\* attempt 2 from the "-" on
rangeDash(string, first, dash) ==
  IF dash.exc # "none" THEN first
  ELSE rangeLast(string, first, match_internal_char(string, dash.j))

\* attempt 2 from `first` on; a `first` that raised NoMatch raises it again
\* in attempt 3
rangeFirst(string, first) ==
  IF first.exc # "none" THEN first
  ELSE rangeDash(string, first, static(string, first.j, <<"-">>))

\* parse.match_class_interior_1
match_class_interior_1(string, i) ==
  LET sh == select_static(string, i, classShorthand, 1)
  IN IF sh.exc = "none" THEN sh
     ELSE rangeFirst(string, match_internal_char(string, i))

RECURSIVE match_class_interior(_, _)

\* match_class_interior's loop after one match_class_interior_1
interiorLoop(string, i, r) ==
  IF r.exc = "NoMatch" THEN matched(i, 0)
  ELSE IF r.exc # "none" THEN r
  ELSE match_class_interior(string, r.j)

\* parse.match_class_interior
match_class_interior(string, i) ==
  interiorLoop(string, i, match_class_interior_1(string, i))

\* match_charclass's try blocks for "[^...]" and "[...]": after the
\* interior, and after the opening
bracketInterior(string, interior) ==
  IF interior.exc # "none" THEN interior
  ELSE static(string, interior.j, <<"]">>)

bracketOpen(string, o) ==
  IF o.exc # "none" THEN o
  ELSE bracketInterior(string, match_class_interior(string, o.j))

bracketed(string, i, open) == bracketOpen(string, static(string, i, open))

\* match_charclass after the two try blocks for brackets
charclassPlain(string, i) ==
  LET e == select_escape(string, i, 1)
      sp == select_escaped(string, i, allSpecial, 1)
      h == unescape_hex(string, i)
  IN IF e.exc = "none" THEN e
     ELSE IF sp.exc = "none" THEN sp
     ELSE IF h.exc # "NoMatch" THEN h
     ELSE IF In(string[i + 1], allSpecial) THEN NoMatch
     ELSE matched(i + 1, 0)

\* match_charclass from the try block for "[...]" on
charclassBracket(string, i, plain) ==
  IF plain.exc # "NoMatch" THEN plain ELSE charclassPlain(string, i)

\* match_charclass from the try block for "[^...]" on
charclassNegated(string, i, negated) ==
  IF negated.exc # "NoMatch" THEN negated
  ELSE charclassBracket(string, i, bracketed(string, i, <<"[">>))

\* parse.match_charclass
match_charclass(string, i) ==
  LET sh == select_static(string, i, shorthand, 1)
  IN IF i >= Len(string) THEN NoMatch
     ELSE IF sh.exc = "none" THEN sh
     ELSE charclassNegated(string, i, bracketed(string, i, <<"[", "^">>))

\* parse.match_any_of
match_any_of(string, i, collection) ==
  select_static(string, i, [k \in 1..Len(collection) |-> <<collection[k]>>], 1)

\* match_bound's loop over the digits after the first
RECURSIVE digits(_, _)
digits(string, j) ==
  LET d == match_any_of(string, j, <<"0", "1", "2", "3", "4", "5", "6", "7",
                                     "8", "9">>)
  IN IF d.exc = "none" THEN digits(string, d.j) ELSE matched(j, 0)

\* parse.match_bound
match_bound(string, i) ==
  LET zero == static(string, i, <<"0">>)
      digit == match_any_of(string, i, <<"1", "2", "3", "4", "5", "6", "7",
                                         "8", "9">>)
  IN IF zero.exc = "none" THEN zero
     ELSE IF digit.exc = "none" THEN digits(string, digit.j)
     ELSE matched(i, 0)

\* match_multiplier's first try block, "{" bound "," bound "}": after the
\* first bound, and after the "{"
bracesMin(string, min) ==
  LET comma == static(string, min.j, <<",">>)
  IN IF comma.exc # "none" THEN comma
     ELSE static(string, match_bound(string, comma.j).j, <<"}">>)

bracesTwo(string, o) ==
  IF o.exc # "none" THEN o ELSE bracesMin(string, match_bound(string, o.j))

\* match_multiplier's second try block, "{" bound "}"
bracesOne(string, o) ==
  IF o.exc # "none" THEN o
  ELSE static(string, match_bound(string, o.j).j, <<"}">>)

\* match_multiplier from the second try block on
multiplierOne(string, i, one) ==
  IF one.exc = "none" THEN one ELSE select_static(string, i, symbolic, 1)

\* match_multiplier from the first try block on
multiplierTwo(string, i, two) ==
  IF two.exc = "none" THEN two
  ELSE multiplierOne(string, i, bracesOne(string, static(string, i, <<"{">>)))

\* parse.match_multiplier
match_multiplier(string, i) ==
  multiplierTwo(string, i, bracesTwo(string, static(string, i, <<"{">>)))

RECURSIVE match_pattern(_, _)

\* match_multiplicand's try blocks from the pattern on
groupPattern(string, pattern) ==
  IF pattern.exc # "none" THEN pattern
  ELSE static(string, pattern.j, <<")">>)

\* from what precedes the pattern on: "(", or "(?:", or "(?P<name>"
groupFrom(string, from) ==
  IF from.exc # "none" THEN from
  ELSE groupPattern(string, match_pattern(string, from.j))

\* the first try block from select_static on
groupSelect(string, st) ==
  IF st.exc # "none" THEN st
  ELSE IF st.val = 2 THEN groupFrom(string, read_until(string, st.j, ">"))
  ELSE groupFrom(string, st)

\* the first try block from static(string, i, "(?") on
groupNamed(string, o) ==
  IF o.exc # "none" THEN o
  ELSE groupSelect(string,
                   select_static(string, o.j, << <<":">>, <<"P", "<">> >>, 1))

\* match_multiplicand from the second try block on
multiplicandPlain(string, i, plain) ==
  IF plain.exc # "NoMatch" THEN plain ELSE match_charclass(string, i)

\* match_multiplicand from the first try block on
multiplicandNamed(string, i, named) ==
  IF named.exc # "NoMatch" THEN named
  ELSE multiplicandPlain(string, i,
                         groupFrom(string, static(string, i, <<"(">>)))

\* parse.match_multiplicand
match_multiplicand(string, i) ==
  multiplicandNamed(string, i,
                    groupNamed(string, static(string, i, <<"(", "?">>)))

\* match_mult after the multiplicand
multMultiplier(string, multiplicand) ==
  IF multiplicand.exc # "none" THEN multiplicand
  ELSE match_multiplier(string, multiplicand.j)

\* parse.match_mult
match_mult(string, i) == multMultiplier(string, match_multiplicand(string, i))

RECURSIVE match_conc(_, _)

\* match_conc's loop after one match_mult
concLoop(string, i, m) ==
  IF m.exc = "NoMatch" THEN matched(i, 0)
  ELSE IF m.exc # "none" THEN m
  ELSE match_conc(string, m.j)

\* parse.match_conc
match_conc(string, i) == concLoop(string, i, match_mult(string, i))

RECURSIVE alternatives(_, _)

\* match_pattern's loop after "|" conc
alternativesConc(string, c) ==
  IF c.exc # "none" THEN c ELSE alternatives(string, c.j)

\* match_pattern's loop after static(string, i, "|")
alternativesBar(string, i, bar) ==
  IF bar.exc # "none" THEN matched(i, 0)
  ELSE alternativesConc(string, match_conc(string, bar.j))

\* match_pattern's loop over "|" conc
alternatives(string, i) ==
  alternativesBar(string, i, static(string, i, <<"|">>))

\* parse.match_pattern
match_pattern(string, i) == alternativesConc(string, match_conc(string, i))

\* parse.parse after match_pattern: [exc, j], j being the index that the
\* Exception names
parsed(string, r) ==
  IF r.exc # "none" THEN [exc |-> r.exc, j |-> 0]
  ELSE IF r.j # Len(string) THEN [exc |-> "Exception", j |-> r.j]
  ELSE [exc |-> "none", j |-> r.j]

\* parse.parse
parse(string) == parsed(string, match_pattern(string, 0))

\* ------------------------------------------------ the inputs of the model
\* Every function from a subset of D to R: a Python dict with keys in D.
Dicts(D, R) == UNION {[d -> R] : d \in SUBSET D}

\* x is one of the fsm objects with states 0..n-1, n <= MaxStates, over the
\* alphabet Sigma, whose map only mentions symbols of Sigma.
Operand(x, Sigma) ==
  \E n \in 1..MaxStates :
    \E initial \in 0..(n - 1), finals \in SUBSET (0..(n - 1)),
       rows \in SUBSET (0..(n - 1)) :
      \E map \in [rows -> Dicts(Sigma, 0..(n - 1))] :
        x = fsm(Sigma, 0..(n - 1), initial, finals, map)

\* map has a row for every state and an entry for every symbol
total(self) ==
  /\ DOMAIN self.map = self.states
  /\ \A state \in self.states : DOMAIN self.map[state] = self.alphabet

\* The words over Sigma of length at most n.
Words(Sigma, n) == UNION {[1..k -> Sigma] : k \in 0..n}

\* ----------------------------------------------------------- the state
VARIABLES
  pc,      \* the call that was made last
  A, B,    \* the fsm objects the calls are made on
  args,    \* the objects the caller passed to fsm(...) and still holds
  shared,  \* whether A.map is the very dict object args.map
  ret,     \* what the last call returned or raised
  gen      \* the frame of a running A.strings() generator

vars == <<pc, A, B, args, shared, ret, gen>>

NoArgs == [alphabet |-> {}, states |-> {}, initial |-> -1, finals |-> {},
           map |-> <<>>]
NoGen == [livestates |-> {}, strings |-> <<>>, i |-> 0, todo |-> <<>>,
          yielded |-> <<>>, at |-> "none"]
NoRet == [exc |-> "none", val |-> FALSE, obj |-> NoFsm, input |-> <<>>]

\* A call that returned an fsm, or raised.
Returned(r) == [exc |-> r.exc, val |-> FALSE, obj |-> r.obj, input |-> <<>>]

\* -------------------------------------- constructing and using one fsm
\* anything_else and the concrete symbols.
AllSymbols == Symbols \cup {anything_else}

\* The alphabets fsm(...) is called with: without anything_else, with it,
\* and all concrete symbols.
Alphabets == {{1}, {anything_else, 1}, Symbols}

\* The caller's arguments: any alphabet, the states 0..n-1, and an initial
\* state, final states and a dict of dicts that need not fit them.
Init ==
  /\ pc = "new"
  /\ \E alphabet \in Alphabets, n \in 1..MaxStates,
        initial \in 0..(MaxStates - 1), finals \in SUBSET (0..(MaxStates - 1)),
        rows \in SUBSET (0..(MaxStates - 1)) :
       \E map \in [rows -> Dicts(AllSymbols, 0..(MaxStates - 1))] :
          args = [alphabet |-> alphabet, states |-> 0..(n - 1),
                  initial |-> initial, finals |-> finals, map |-> map]
  /\ A = NoFsm
  /\ B = NoFsm
  /\ shared = FALSE
  /\ ret = NoRet
  /\ gen = NoGen

\* A = fsm(alphabet, states, initial, finals, map): raises, or sets the
\* fields: copies of the three sets, and the caller's dict itself.
Construct ==
  /\ pc = "new"
  /\ IF validate(args.alphabet, args.states, args.initial, args.finals, args.map)
     THEN /\ pc' = "constructed"
          /\ A' = fsm(args.alphabet, args.states, args.initial, args.finals,
                      args.map)
          /\ shared' = TRUE
          /\ ret' = NoRet
     ELSE /\ pc' = "raised"
          /\ ret' = [NoRet EXCEPT !.exc = "Exception"]
          /\ UNCHANGED <<A, shared>>
  /\ UNCHANGED <<B, args, gen>>

\* A.accepts(input)
Accepts ==
  /\ pc \in {"constructed", "mutated"}
  /\ \E input \in Words(Symbols, MaxWordLen) :
        ret' = [exc |-> accepts(A, input).exc, val |-> accepts(A, input).val,
                obj |-> NoFsm, input |-> input]
  /\ pc' = "accepts"
  /\ UNCHANGED <<A, B, args, shared, gen>>

\* A.name = value, for any name and value: fsm.__setattr__ raises.
SetAttr ==
  /\ pc = "constructed"
  /\ pc' = "setattr"
  /\ ret' = [NoRet EXCEPT !.exc = "Exception"]
  /\ UNCHANGED <<A, B, args, shared, gen>>

\* A method that returns a new fsm is called on A.
CallMethod ==
  /\ pc = "constructed"
  /\ pc' = "method"
  /\ \E method \in {"reduce", "star", "everythingbut", "reversed"} :
        ret' = Returned(
                 CASE method = "reduce" -> [exc |-> "none", obj |-> reduce(A)]
                   [] method = "star" -> star(A)
                   [] method = "everythingbut" -> everythingbut(A)
                   [] method = "reversed" -> [exc |-> "none",
                                              obj |-> __reversed__(A)])
  /\ UNCHANGED <<A, B, args, shared, gen>>

\* The caller empties one of the objects it passed to fsm(...): x.clear().
\* A's alphabet, states and finals are copies; A's map is the caller's dict
\* for as long as the two are shared.
CallerClears ==
  /\ pc = "constructed"
  /\ pc' = "mutated"
  /\ \/ args' = [args EXCEPT !.alphabet = {}] /\ A' = A
     \/ args' = [args EXCEPT !.states = {}] /\ A' = A
     \/ args' = [args EXCEPT !.finals = {}] /\ A' = A
     \/ /\ args' = [args EXCEPT !.map = <<>>]
        /\ A' = IF shared THEN [A EXCEPT !.map = <<>>] ELSE A
  /\ UNCHANGED <<B, shared, ret, gen>>

Next == Construct \/ Accepts \/ SetAttr \/ CallMethod \/ CallerClears

Spec == Init /\ [][Next]_vars

\* ------------------------------------- one-operand calls on existing fsms
InitUnary ==
  /\ pc = "ready"
  /\ Operand(A, Symbols)
  /\ B = NoFsm
  /\ args = NoArgs
  /\ shared = FALSE
  /\ ret = NoRet
  /\ gen = NoGen

CallStar ==
  /\ pc = "ready"
  /\ pc' = "star"
  /\ ret' = Returned(star(A))
  /\ UNCHANGED <<A, B, args, shared, gen>>

CallEverythingbut ==
  /\ pc = "ready"
  /\ pc' = "everythingbut"
  /\ ret' = Returned(everythingbut(A))
  /\ UNCHANGED <<A, B, args, shared, gen>>

CallReversed ==
  /\ pc = "ready"
  /\ pc' = "reversed"
  /\ ret' = Returned([exc |-> "none", obj |-> __reversed__(A)])
  /\ UNCHANGED <<A, B, args, shared, gen>>

CallReduce ==
  /\ pc = "ready"
  /\ pc' = "reduce"
  /\ ret' = Returned([exc |-> "none", obj |-> reduce(A)])
  /\ UNCHANGED <<A, B, args, shared, gen>>

\* One specification for each one-operand method.
SpecStar == InitUnary /\ [][CallStar]_vars
SpecReversed == InitUnary /\ [][CallReversed]_vars
SpecReduce == InitUnary /\ [][CallReduce]_vars

\* ------------------------------------- two-operand calls on existing fsms
\* The pairs of operands: both with a total map, or with at most
\* MaxStates + 1 states between them, or the same fsm twice.
InitBinary ==
  /\ pc = "ready"
  /\ Operand(A, Symbols)
  /\ Operand(B, Symbols)
  /\ \/ total(A) /\ total(B)
     \/ Cardinality(A.states) + Cardinality(B.states) <= MaxStates + 1
     \/ B = A
  /\ args = NoArgs
  /\ shared = FALSE
  /\ ret = NoRet
  /\ gen = NoGen

CallAdd ==
  /\ pc = "ready"
  /\ pc' = "add"
  /\ ret' = Returned(__add__(A, B))
  /\ UNCHANGED <<A, B, args, shared, gen>>

CallOr ==
  /\ pc = "ready"
  /\ pc' = "or"
  /\ ret' = Returned(__or__(A, B))
  /\ UNCHANGED <<A, B, args, shared, gen>>

CallAnd ==
  /\ pc = "ready"
  /\ pc' = "and"
  /\ ret' = Returned(__and__(A, B))
  /\ UNCHANGED <<A, B, args, shared, gen>>

CallXor ==
  /\ pc = "ready"
  /\ pc' = "xor"
  /\ ret' = Returned(__xor__(A, B))
  /\ UNCHANGED <<A, B, args, shared, gen>>

NextBinary == CallAdd \/ CallOr \/ CallAnd \/ CallXor \/ CallEverythingbut

SpecBinary == InitBinary /\ [][NextBinary]_vars

\* ------------------------------------------------ the strings() generator
\* The frame of A.strings(): livestates, the list strings of (string, state)
\* pairs, the index i (from 1 here), todo: what is left of the sorted row of
\* the for loop, and yielded: the words handed to the consumer so far.
\* gen.at is where the frame stands: "start" (created, nothing run), "while"
\* (at the loop test), "for" (inside the for loop), "done" (the generator
\* returned), "stopped" (the consumer stopped asking).
InitStrings ==
  /\ pc = "strings"
  /\ \E Sigma \in {Symbols, {anything_else, 1}} : Operand(A, Sigma)
  /\ B = NoFsm
  /\ args = NoArgs
  /\ shared = FALSE
  /\ ret = NoRet
  /\ gen = [NoGen EXCEPT !.at = "start"]

\* From the first next() to the while loop: livestates and the initial entry.
GenStart ==
  /\ gen.at = "start"
  /\ LET livestates == {state \in A.states : islive(A, state)}
         cstate == A.initial
     IN gen' = [at |-> "while",
                livestates |-> livestates,
                strings |-> IF cstate \in livestates THEN <<<<<<>>, cstate>>>>
                                                     ELSE <<>>,
                i |-> 1,
                todo |-> <<>>,
                yielded |-> IF cstate \in livestates /\ cstate \in A.finals
                            THEN <<<<>>>> ELSE <<>>]
  /\ UNCHANGED <<pc, A, B, args, shared, ret>>

\* The while test and the head of its body: the generator returns when the
\* list is used up, else it sorts the row of strings[i]'s state, if any.
GenWhile ==
  /\ gen.at = "while"
  /\ IF gen.i > Len(gen.strings)
     THEN gen' = [gen EXCEPT !.at = "done"]
     ELSE /\ Len(gen.strings[gen.i][1]) < MaxGenLen
          /\ LET cstate == gen.strings[gen.i][2]
             IN gen' = [gen EXCEPT !.at = "for",
                          !.todo = IF cstate \in DOMAIN A.map
                                   THEN sorted(DOMAIN A.map[cstate]) ELSE <<>>]
  /\ UNCHANGED <<pc, A, B, args, shared, ret>>

\* One round of the for loop, or its end and i += 1.
GenFor ==
  /\ gen.at = "for"
  /\ IF gen.todo = <<>>
     THEN gen' = [gen EXCEPT !.at = "while", !.i = gen.i + 1]
     ELSE LET cstring == gen.strings[gen.i][1]
              cstate == gen.strings[gen.i][2]
              symbol == Head(gen.todo)
              nstate == A.map[cstate][symbol]
              nstring == Append(cstring, symbol)
          IN gen' = [gen EXCEPT
                       !.todo = Tail(gen.todo),
                       !.strings = IF nstate \in gen.livestates
                                   THEN Append(gen.strings, <<nstring, nstate>>)
                                   ELSE gen.strings,
                       !.yielded = IF nstate \in gen.livestates
                                      /\ nstate \in A.finals
                                   THEN Append(gen.yielded, nstring)
                                   ELSE gen.yielded]
  /\ UNCHANGED <<pc, A, B, args, shared, ret>>

\* The consumer stops asking once the words have MaxGenLen symbols.
GenStop ==
  /\ gen.at = "while"
  /\ gen.i <= Len(gen.strings)
  /\ Len(gen.strings[gen.i][1]) >= MaxGenLen
  /\ gen' = [gen EXCEPT !.at = "stopped"]
  /\ UNCHANGED <<pc, A, B, args, shared, ret>>

NextStrings == GenStart \/ GenWhile \/ GenFor \/ GenStop

\* The consumer keeps asking for the next word, so the generator keeps
\* running until it returns or the consumer stops.
SpecStrings == InitStrings /\ [][NextStrings]_vars /\ WF_vars(NextStrings)

\* The generator on any fsm that fsm(...) constructs over an alphabet with
\* anything_else: the map may mention symbols outside the alphabet, which
\* validate() lets through.
InitStringsBuilt ==
  /\ pc = "strings"
  /\ \E n \in 1..MaxStates :
       \E initial \in 0..(n - 1), finals \in SUBSET (0..(n - 1)),
          rows \in SUBSET (0..(n - 1)) :
         \E map \in [rows -> Dicts(AllSymbols, 0..(n - 1))] :
            /\ validate({anything_else, 1}, 0..(n - 1), initial, finals, map)
            /\ A = fsm({anything_else, 1}, 0..(n - 1), initial, finals, map)
  /\ B = NoFsm
  /\ args = NoArgs
  /\ shared = FALSE
  /\ ret = NoRet
  /\ gen = [NoGen EXCEPT !.at = "start"]

SpecStringsBuilt ==
  InitStringsBuilt /\ [][NextStrings]_vars /\ WF_vars(NextStrings)

\* ------------------------------------------------- empty() and islive()
\* The arguments of fsm(...) as in Init, the empty alphabet included.
InitLive ==
  /\ pc = "new"
  /\ \E alphabet \in Alphabets \cup {{}}, n \in 1..MaxStates,
        initial \in 0..(MaxStates - 1), finals \in SUBSET (0..(MaxStates - 1)),
        rows \in SUBSET (0..(MaxStates - 1)) :
       \E map \in [rows -> Dicts(AllSymbols, 0..(MaxStates - 1))] :
          args = [alphabet |-> alphabet, states |-> 0..(n - 1),
                  initial |-> initial, finals |-> finals, map |-> map]
  /\ A = NoFsm
  /\ B = NoFsm
  /\ shared = FALSE
  /\ ret = NoRet
  /\ gen = NoGen

\* A.empty()
CallEmpty ==
  /\ pc = "constructed"
  /\ pc' = "empty"
  /\ ret' = [NoRet EXCEPT !.val = empty(A)]
  /\ UNCHANGED <<A, B, args, shared, gen>>

\* A.islive(state), for a state of A; ret.input keeps the state asked about.
CallIslive ==
  /\ pc = "constructed"
  /\ pc' = "islive"
  /\ \E state \in A.states :
        ret' = [NoRet EXCEPT !.val = islive(A, state), !.input = <<state>>]
  /\ UNCHANGED <<A, B, args, shared, gen>>

NextLive == Construct \/ CallEmpty \/ CallIslive

SpecLive == InitLive /\ [][NextLive]_vars

\* ------------------------------ two-operand calls, alphabets equal or not
\* Two operands, each over an alphabet of its own.
InitMismatch ==
  /\ pc = "ready"
  /\ \E SigmaA \in Alphabets, SigmaB \in Alphabets :
        Operand(A, SigmaA) /\ Operand(B, SigmaB)
  /\ Cardinality(A.states) + Cardinality(B.states) <= MaxStates + 1
  /\ args = NoArgs
  /\ shared = FALSE
  /\ ret = NoRet
  /\ gen = NoGen

\* A.equivalent(B)
CallEquivalent ==
  /\ pc = "ready"
  /\ pc' = "equivalent"
  /\ ret' = [NoRet EXCEPT !.exc = equivalent(A, B).exc,
                          !.val = equivalent(A, B).val]
  /\ UNCHANGED <<A, B, args, shared, gen>>

NextMismatch == CallAdd \/ CallOr \/ CallAnd \/ CallXor \/ CallEquivalent

SpecMismatch == InitMismatch /\ [][NextMismatch]_vars

\* ------------------------------------ + and star() on maps with omissions
NextPartial == CallAdd \/ CallStar

SpecPartial == InitBinary /\ [][NextPartial]_vars

\* ------------------------------------------------------- crawl by itself
\* The methods whose final and follow crawl is called with.
Kinds == {"reversed", "add", "star", "or", "and", "xor", "everythingbut"}

\* Two operands over one alphabet, with or without anything_else.
InitCrawl ==
  /\ pc = "ready"
  /\ \E Sigma \in {Symbols, {anything_else, 1}} :
        Operand(A, Sigma) /\ Operand(B, Sigma)
  /\ \/ Cardinality(A.states) + Cardinality(B.states) <= MaxStates + 1
     \/ B = A
  /\ args = NoArgs
  /\ shared = FALSE
  /\ ret = NoRet
  /\ gen = NoGen

\* crawl(alphabet, initial, final, follow) as one of the methods calls it,
\* its result before any reduce(); ret.input keeps which method's it was.
CallCrawl ==
  /\ pc = "ready"
  /\ pc' = "crawl"
  /\ \E kind \in Kinds :
        ret' = [Returned(crawl(A.alphabet, initialOf(kind, A, B),
                               closure(kind, A, B)))
                  EXCEPT !.input = <<kind>>]
  /\ UNCHANGED <<A, B, args, shared, gen>>

SpecCrawl == InitCrawl /\ [][CallCrawl]_vars

\* ---------------------------------------------------------------- parse
\* The characters the strings handed to parse() are made of.
ParseChars == {"\\", "x", "4", "a", "[", "]", "^", "-", "(", ")", "|", "?",
               "{", "}", ","}

InitParse ==
  /\ pc = "ready"
  /\ A = NoFsm
  /\ B = NoFsm
  /\ args = NoArgs
  /\ shared = FALSE
  /\ ret = NoRet
  /\ gen = NoGen

\* parse(string): ret.exc is the exception that reached the caller, if any
CallParse ==
  /\ pc = "ready"
  /\ pc' = "parse"
  /\ \E string \in Words(ParseChars, MaxParseLen) :
        ret' = [NoRet EXCEPT !.exc = parse(string).exc, !.input = string]
  /\ UNCHANGED <<A, B, args, shared, gen>>

SpecParse == InitParse /\ [][CallParse]_vars

\* --------------------------------------- what the claims are stated with
\* The language of an fsm as the data model defines it: a missing row or a
\* missing symbol is a move to the implicit dead state, here -1, which is
\* not final and is never left.
RECURSIVE Run(_, _, _)
Run(M, state, w) ==
  IF w = <<>> THEN state
  ELSE IF state \in DOMAIN M.map /\ Head(w) \in DOMAIN M.map[state]
       THEN Run(M, M.map[state][Head(w)], Tail(w))
       ELSE -1

InLanguage(M, w) == Run(M, M.initial, w) \in M.finals

\* accepts() returned, and returned b.
Answers(M, w, b) == accepts(M, w) = [exc |-> "none", val |-> b]

\* The word w read backwards.
Reverse(w) == [k \in 1..Len(w) |-> w[Len(w) + 1 - k]]

\* The words the claims are checked on.
TestWords(Sigma) == Words(Sigma, MaxWordLen)

\* fsm R accepts exactly the language of fsm M, on the test words.
SameLanguage(R, M) ==
  \A w \in TestWords(M.alphabet) : Answers(R, w, InLanguage(M, w))

\* C8: reversed(A) accepts w iff A accepts w read backwards, whatever A's map
\* omits; so reversed(reversed(A)) accepts exactly the language of A.
C8_Reversed ==
  pc = "reversed" =>
    /\ ret.exc = "none"
    /\ \A w \in TestWords(A.alphabet) :
          Answers(ret.obj, w, InLanguage(A, Reverse(w)))
    /\ SameLanguage(__reversed__(ret.obj), A)

\* An fsm whose map omits transitions was reversed, and the reversal accepts
\* a word that the fsm itself rejects while it accepts the word read backwards.
C8_Witness ==
  /\ pc = "reversed"
  /\ ~ total(A)
  /\ \E w \in TestWords(A.alphabet) :
        /\ Answers(ret.obj, w, TRUE)
        /\ ~ InLanguage(A, w)
        /\ InLanguage(A, Reverse(w))

\* w is a concatenation of zero or more words of the language of M.
RECURSIVE InStar(_, _)
InStar(M, w) ==
  \/ w = <<>>
  \/ \E k \in 1..Len(w) : /\ InLanguage(M, SubSeq(w, 1, k))
                          /\ InStar(M, SubSeq(w, k + 1, Len(w)))

\* C5: for an fsm A with a total map, A.star() accepts w iff w is a
\* concatenation of zero or more words A accepts; the empty word is accepted;
\* the star of the star is equivalent to the star; null.star() is equivalent
\* to epsilon.
C5_Star ==
  (pc = "star" /\ total(A)) =>
    /\ ret.exc = "none"
    /\ \A w \in TestWords(A.alphabet) : Answers(ret.obj, w, InStar(A, w))
    /\ Answers(ret.obj, <<>>, TRUE)
    /\ star(ret.obj).exc = "none"
    /\ SameLanguage(star(ret.obj).obj, ret.obj)
    /\ (A = null(A.alphabet) => SameLanguage(ret.obj, epsilon(A.alphabet)))

\* The (b*ab)* case: A accepts some word, and its star rejects a word that
\* leaves A in its initial state and a word that passes through a final
\* state of A.
C5_Witness ==
  /\ pc = "star"
  /\ total(A)
  /\ \E w \in TestWords(A.alphabet) : w # <<>> /\ InLanguage(A, w)
  /\ \E w \in TestWords(A.alphabet) :
        /\ w # <<>>
        /\ Answers(ret.obj, w, FALSE)
        /\ Run(A, A.initial, w) = A.initial
  /\ \E w \in TestWords(A.alphabet) :
        /\ Answers(ret.obj, w, FALSE)
        /\ \E k \in 1..Len(w) : InLanguage(A, SubSeq(w, 1, k))

\* State s of R is reached by some word; states s and t of R accept
\* different suffixes.
Reached(R, s) == \E w \in TestWords(R.alphabet) : Run(R, R.initial, w) = s
Distinguished(R, s, t) ==
  \E w \in TestWords(R.alphabet) :
     (Run(R, s, w) \in R.finals) # (Run(R, t, w) \in R.finals)

\* The number of classes of the Myhill-Nerode relation of the language of M:
\* the number of states of the smallest fsm with a total map that accepts
\* it.  A class is the set of suffixes that lead from a state M can be in
\* (the dead state -1 is one) into a final state; words of MaxStates symbols
\* reach every state of an fsm of MaxStates states, and tell apart any two
\* states of it and its dead state that differ at all.
NerodeIndex(M) ==
  LET reached == {Run(M, M.initial, u) : u \in Words(M.alphabet, MaxStates)}
  IN Cardinality({{v \in Words(M.alphabet, MaxStates) : Run(M, q, v) \in M.finals} :
                     q \in reached})

\* C9: A.reduce() accepts exactly the language of A and is minimal: it has
\* as many states as the language has Myhill-Nerode classes, each of its
\* states is reachable and no two accept the same suffixes; reducing again
\* keeps the number of states and the language.
C9_Reduce ==
  pc = "reduce" =>
    /\ ret.exc = "none"
    /\ SameLanguage(ret.obj, A)
    /\ total(ret.obj)
    /\ Cardinality(ret.obj.states) = NerodeIndex(A)
    /\ \A s \in ret.obj.states : Reached(ret.obj, s)
    /\ \A s, t \in ret.obj.states : s # t => Distinguished(ret.obj, s, t)
    /\ Cardinality(reduce(ret.obj).states) = Cardinality(ret.obj.states)
    /\ SameLanguage(reduce(ret.obj), ret.obj)

\* An fsm with a state that cannot be reached, or with two states that
\* accept the same suffixes, was reduced to fewer states.
C9_Witness ==
  /\ pc = "reduce"
  /\ \/ \E s \in A.states : ~ Reached(A, s)
     \/ \E s, t \in A.states : s # t /\ ~ Distinguished(A, s, t)
  /\ Cardinality(ret.obj.states) < Cardinality(A.states)

\* C4: for A and B with total maps, A + B accepts w iff w = u v with u
\* accepted by A and v by B; epsilon + A and A + epsilon are equivalent to A
\* and null + A to null.
C4_Add ==
  (pc = "add" /\ total(A) /\ total(B)) =>
    /\ ret.exc = "none"
    /\ \A w \in TestWords(A.alphabet) :
          Answers(ret.obj, w,
                  \E k \in 0..Len(w) : /\ InLanguage(A, SubSeq(w, 1, k))
                                       /\ InLanguage(B, SubSeq(w, k + 1, Len(w))))
    /\ (A = epsilon(A.alphabet) => SameLanguage(ret.obj, B))
    /\ (B = epsilon(A.alphabet) => SameLanguage(ret.obj, A))
    /\ (A = null(A.alphabet) => SameLanguage(ret.obj, A))

\* Two fsms with total maps were concatenated, the first accepts the empty
\* word, and the sum accepts a word that neither accepts.
C4_Witness ==
  /\ pc = "add" /\ total(A) /\ total(B)
  /\ A.initial \in A.finals
  /\ \E w \in TestWords(A.alphabet) :
        /\ Answers(ret.obj, w, TRUE)
        /\ ~ InLanguage(A, w)
        /\ ~ InLanguage(B, w)

\* C6: A | B, A & B and A ^ B accept w iff A or B, A and B, exactly one of A
\* and B accepts w, whatever the maps omit: a side that ran into a missing
\* transition rejects from then on.  So A | A and A & A are equivalent to A
\* and A ^ A accepts nothing.
C6_SetOps ==
  pc \in {"or", "and", "xor"} =>
    /\ ret.exc = "none"
    /\ \A w \in TestWords(A.alphabet) :
          Answers(ret.obj, w,
                  CASE pc = "or" -> InLanguage(A, w) \/ InLanguage(B, w)
                    [] pc = "and" -> InLanguage(A, w) /\ InLanguage(B, w)
                    [] pc = "xor" -> InLanguage(A, w) # InLanguage(B, w))
    /\ (B = A /\ pc \in {"or", "and"} => SameLanguage(ret.obj, A))
    /\ (B = A /\ pc = "xor" =>
          \A w \in TestWords(A.alphabet) : Answers(ret.obj, w, FALSE))

\* The union with an fsm that has run into a missing transition: A has no
\* transition left on a prefix of w, B accepts w, and so does A | B.
C6_Witness ==
  /\ pc = "or"
  /\ \E w \in TestWords(A.alphabet) :
        /\ \E k \in 1..(Len(w) - 1) : Run(A, A.initial, SubSeq(w, 1, k)) = -1
        /\ InLanguage(B, w)
        /\ Answers(ret.obj, w, TRUE)

\* C7: A.everythingbut() accepts w iff A does not, also where A's map omits
\* transitions; the complement of the complement is equivalent to A, and the
\* complement of A | B to the intersection of the complements.
C7_Everythingbut ==
  pc = "everythingbut" =>
    /\ ret.exc = "none"
    /\ \A w \in TestWords(A.alphabet) : Answers(ret.obj, w, ~ InLanguage(A, w))
    /\ SameLanguage(everythingbut(ret.obj).obj, A)
    /\ LET notOr == everythingbut(__or__(A, B).obj).obj
           andNot == __and__(ret.obj, everythingbut(B).obj).obj
       IN \A w \in TestWords(A.alphabet) :
             /\ accepts(notOr, w).exc = "none"
             /\ accepts(notOr, w) = accepts(andNot, w)

\* The complement accepts a word that drives A into a missing transition,
\* and an extension of that word.
C7_Witness ==
  /\ pc = "everythingbut"
  /\ \E w \in TestWords(A.alphabet) :
        /\ \E k \in 1..(Len(w) - 1) :
              /\ Run(A, A.initial, SubSeq(w, 1, k)) = -1
              /\ Answers(ret.obj, SubSeq(w, 1, k), TRUE)
        /\ Answers(ret.obj, w, TRUE)

\* The answer accepts(word) is to give on M: the walk from the initial state
\* with anything_else for a symbol outside an alphabet that has it, FALSE
\* once a state has no transition on the symbol, else whether the last state
\* is final.
RECURSIVE Walk(_, _, _)
Walk(M, state, w) ==
  IF w = <<>> THEN state \in M.finals
  ELSE LET symbol == IF anything_else \in M.alphabet /\ Head(w) \notin M.alphabet
                     THEN anything_else ELSE Head(w)
       IN IF state \in DOMAIN M.map /\ symbol \in DOMAIN M.map[state]
          THEN Walk(M, M.map[state][symbol], Tail(w))
          ELSE FALSE

\* C1: on every fsm that passed construction, accepts(word) never raises and
\* returns the answer of the walk, also where the map has no row for a state.
C1_Accepts ==
  pc = "accepts" =>
    /\ ret.exc = "none"
    /\ ret.val = Walk(A, A.initial, ret.input)

\* The four invariants of the data model, on the arguments and on an fsm.
WellFormed(x) ==
  /\ x.initial \in x.states
  /\ x.finals \subseteq x.states
  /\ \A state \in DOMAIN x.map : \A symbol \in DOMAIN x.map[state] :
        /\ x.map[state][symbol] \in x.states
        /\ symbol \in x.alphabet

\* C2: construction raises and yields no fsm whenever the arguments violate
\* one of the four invariants, and every fsm that exists satisfies them.
C2_Construct ==
  /\ pc \in {"constructed", "raised"} =>
        (~ WellFormed(args) <=> (pc = "raised" /\ A = NoFsm))
  /\ A # NoFsm => WellFormed(A)

\* C3: once the fsm is constructed none of its fields ever changes, whatever
\* is called on it and whatever the caller does to the objects it passed.
C3_Immutable == [][A # NoFsm => A' = A]_vars

\* The order of the claim on symbols (anything_else last) and on words
\* (shorter first, then by the first symbol that differs).
SymbolBefore(a, b) == a # anything_else /\ (b = anything_else \/ a < b)
WordBefore(u, v) ==
  \/ Len(u) < Len(v)
  \/ /\ Len(u) = Len(v)
     /\ \E k \in 1..Len(u) : /\ SymbolBefore(u[k], v[k])
                             /\ \A h \in 1..(k - 1) : u[h] = v[h]

\* The language of M is finite: an fsm of n states with an accepted word of
\* n symbols or more accepts one of n to 2n-1 symbols.
Finite(M) ==
  \A w \in Words(M.alphabet, 2 * Cardinality(M.states) - 1) :
     Len(w) >= Cardinality(M.states) => ~ InLanguage(M, w)

\* Every accepted word of at most MaxGenLen symbols has been yielded.
GenAllYielded ==
  \A w \in Words(A.alphabet, MaxGenLen) :
     InLanguage(A, w) => \E k \in 1..Len(gen.yielded) : gen.yielded[k] = w

\* (a), (b), and what holds once the generator has returned or the consumer
\* has stopped: every accepted word of at most MaxGenLen symbols was yielded,
\* and the consumer has to stop only when the language is infinite.
GenSafe ==
  /\ \A k \in 1..Len(gen.yielded) : Answers(A, gen.yielded[k], TRUE)
  /\ \A k \in 1..(Len(gen.yielded) - 1) :
        WordBefore(gen.yielded[k], gen.yielded[k + 1])
  /\ gen.at \in {"done", "stopped"} => GenAllYielded
  /\ gen.at = "stopped" => ~ Finite(A)

\* C10: strings() yields only accepted words, in strictly increasing order
\* (shorter first, then by symbol order with anything_else last), yields
\* every accepted word in the end, and returns when the language is finite
\* (having yielded nothing when it is empty).  Within the bound: the
\* generator comes to its return, or to words of MaxGenLen symbols, with every
\* accepted word up to there yielded, the latter only for an infinite language.
C10_Strings == []GenSafe /\ <>(gen.at \in {"done", "stopped"})

\* C10 as a statement about every state of the generator: the words
\* yielded so far are accepted by A and strictly increasing (shorter first,
\* anything_else last), and once the generator has returned or the consumer
\* has stopped every accepted word up to MaxGenLen symbols was yielded, the
\* consumer having to stop only on an infinite language.
C10_StringsStepwise ==
  gen.at \in {"while", "for", "done", "stopped"} => GenSafe

\* A generator over an alphabet with anything_else has yielded a word with
\* anything_else right after one of the same length with a concrete symbol
\* in its place, and has returned.
C10_Witness ==
  /\ gen.at = "done"
  /\ \E k \in 1..(Len(gen.yielded) - 1) :
        /\ Len(gen.yielded[k]) = Len(gen.yielded[k + 1])
        /\ \E h \in 1..Len(gen.yielded[k]) :
              gen.yielded[k][h] = 1 /\ gen.yielded[k + 1][h] = anything_else

\* The states reachable from the states S by zero or more transitions.
RECURSIVE ReachableFrom(_, _)
ReachableFrom(M, S) ==
  LET more == S \cup {t \in M.states :
                        \E state \in S \cap DOMAIN M.map :
                           \E symbol \in DOMAIN M.map[state] :
                              M.map[state][symbol] = t}
  IN IF more = S THEN S ELSE ReachableFrom(M, more)

\* accepts() returns true for some word.
AcceptsSomeWord(M) ==
  \E w \in Words(AllSymbols, MaxWordLen) : Answers(M, w, TRUE)

\* What C11 says of the two calls.
LiveAnswers ==
  /\ pc = "empty" => (ret.val <=> ~ AcceptsSomeWord(A))
  /\ pc = "islive" =>
        (ret.val <=> ReachableFrom(A, {ret.input[1]}) \cap A.finals # {})

\* C11: on every fsm that passed construction, empty() returns true iff no
\* word is accepted, and islive(s) returns true iff a final state is
\* reachable from s; an fsm with an empty alphabet and a final initial state
\* is not empty.
C11_Live == LiveAnswers

\* The same on the fsms whose map has symbols of the alphabet only.
C11_LiveWellFormed == WellFormed(A) => LiveAnswers

\* empty() returned false on an fsm with an empty alphabet whose initial
\* state is final.
C11_EmptyAlphabet ==
  pc = "empty" /\ A.alphabet = {} /\ A.initial \in A.finals /\ ~ ret.val

\* C12: each of A + B, A | B, A & B, A ^ B and A.equivalent(B) raises the
\* exception of the alphabet test, and returns nothing, exactly when the two
\* alphabets are different sets; the call leaves both operands as they were.
C12_Mismatch ==
  [][pc = "ready" =>
       /\ A' = A
       /\ B' = B
       /\ (A.alphabet # B.alphabet) <=> (ret'.exc = "Exception")
       /\ A.alphabet # B.alphabet => (ret'.obj = NoFsm /\ ret'.val = FALSE)]_vars

\* A.equivalent(B) raised on alphabets that differ by anything_else only.
C12_Witness ==
  /\ pc = "equivalent"
  /\ ret.exc = "Exception"
  /\ A.alphabet \ B.alphabet = {anything_else}
  /\ B.alphabet \subseteq A.alphabet

\* C13: on operands whose maps omit transitions, A + B and A.star() return
\* without raising, and the fsm returned accepts exactly the concatenation,
\* respectively the star, of the operand languages, an omitted transition
\* being a move to the dead state.
C13_Partial ==
  /\ (pc = "add" /\ ~ (total(A) /\ total(B))) =>
        /\ ret.exc = "none"
        /\ \A w \in TestWords(A.alphabet) :
              Answers(ret.obj, w,
                      \E k \in 0..Len(w) :
                         /\ InLanguage(A, SubSeq(w, 1, k))
                         /\ InLanguage(B, SubSeq(w, k + 1, Len(w))))
  /\ (pc = "star" /\ ~ total(A)) =>
        /\ ret.exc = "none"
        /\ \A w \in TestWords(A.alphabet) : Answers(ret.obj, w, InStar(A, w))

\* The meta-states reachable from those of S through follow.
RECURSIVE MetaReachable(_, _, _)
MetaReachable(f, Sigma, S) ==
  LET more == S \cup {follow(f, m, symbol).val : m \in S, symbol \in Sigma}
  IN IF more = S THEN S ELSE MetaReachable(f, Sigma, more)

\* The place of a symbol in the order of the claim: anything_else last.
Rank(Sigma, symbol) == Cardinality({t \in Sigma : SymbolBefore(t, symbol)})

\* The transition <<state, symbol>> p is before q: from an earlier state,
\* or from the same state on an earlier symbol.
PairBefore(Sigma, p, q) ==
  \/ p[1] < q[1]
  \/ p[1] = q[1] /\ Rank(Sigma, p[2]) < Rank(Sigma, q[2])

\* The transitions <<state, symbol>> of R into state j from states of
\* smaller number, and the first of them.
Discoverers(R, j) ==
  {p \in (0..(j - 1)) \X R.alphabet :
     /\ p[1] \in DOMAIN R.map
     /\ p[2] \in DOMAIN R.map[p[1]]
     /\ R.map[p[1]][p[2]] = j}

Discoverer(R, j) ==
  CHOOSE p \in Discoverers(R, j) :
     \A q \in Discoverers(R, j) \ {p} : PairBefore(R.alphabet, p, q)

\* The meta-state that state j of R stands for: the initial one for state 0,
\* else what follow gives from the state and symbol that discovered j.
RECURSIVE MetaOf(_, _, _, _)
MetaOf(f, initial, R, j) ==
  IF j = 0 \/ Discoverers(R, j) = {} THEN initial
  ELSE LET p == Discoverer(R, j)
       IN follow(f, MetaOf(f, initial, R, p[1]), p[2]).val

\* What C14 says of the fsm R that crawl returned for initial and f.
Crawled(f, initial, R) ==
  LET reachable == MetaReachable(f, R.alphabet, {initial})
      N == Cardinality(reachable)
      meta == [j \in R.states |-> MetaOf(f, initial, R, j)]
  IN /\ R.states = 0..(N - 1)
     /\ R.initial = 0
     /\ DOMAIN R.map = R.states
     /\ \A i \in R.states :
           /\ DOMAIN R.map[i] = R.alphabet
           /\ \A symbol \in R.alphabet :
                 /\ R.map[i][symbol] \in R.states
                 /\ meta[R.map[i][symbol]] = follow(f, meta[i], symbol).val
           /\ i \in R.finals <=> final(f, meta[i])
     /\ R.finals \subseteq R.states
     /\ \A i, j \in R.states : i # j => meta[i] # meta[j]
     /\ {meta[j] : j \in R.states} = reachable
     /\ \A j \in R.states \ {0} : Discoverers(R, j) # {}
     /\ \A i, j \in R.states \ {0} :
           i < j => PairBefore(R.alphabet, Discoverer(R, i), Discoverer(R, j))
     /\ ReachableFrom(R, {0}) = R.states

\* C14: the fsm a finished crawl returns has the states 0..N-1 for the N
\* reachable meta-states, initial state 0, a total map into 0..N-1 that
\* follows follow, state i final iff final holds of its meta-state, unequal
\* meta-states for distinct numbers, and the numbers in breadth-first order
\* of discovery with the symbols in sorted order, anything_else last, so
\* that every state is reachable from state 0.
C14_Crawl ==
  (pc = "crawl" /\ ret.exc = "none") =>
     Crawled(closure(ret.input[1], A, B), initialOf(ret.input[1], A, B), ret.obj)

\* A crawl over an alphabet with anything_else returned an fsm whose state 0
\* discovered state 1 on the symbol 1 and then state 2 on anything_else.
C14_Witness ==
  /\ pc = "crawl" /\ ret.exc = "none"
  /\ anything_else \in A.alphabet
  /\ Cardinality(ret.obj.states) >= 3
  /\ ret.obj.map[0][1] = 1
  /\ ret.obj.map[0][anything_else] = 2

\* C15: parse(string) either returns, having consumed the whole string, or
\* raises the Exception that names the index where parsing stopped; neither
\* NoMatch nor any other exception reaches the caller, also where the string
\* ends in the middle of a character class or of a hex escape.
C15_Parse ==
  pc = "parse" =>
     /\ ret.exc \in {"none", "Exception"}
     /\ ret.exc = "none" => parse(ret.input).j = Len(ret.input)
     /\ ret.exc = "Exception" => parse(ret.input).j < Len(ret.input)

\* NoMatch itself, the exception of the backtracking, never reaches the
\* caller of parse.
C15_NoMatchNeverEscapes == pc = "parse" => ret.exc # "NoMatch"

====
